---- MODULE Spec2Model ----
(***************************************************************************)
(* World-map graph store of src/world_map.py: rooms, directional exits,    *)
(* placement of a newly connected room, the bounded conflict resolver and  *)
(* the persistence codec (to_dict / from_dict).                            *)
(*                                                                         *)
(* Coordinates and extents are Python floats in the source.  Here they are *)
(* integers counting grid points of 1/Scale world unit.  With Scale = 10   *)
(* every value the program computes from even extents by +, -, /2 and *0.7 *)
(* lies on that grid; the only value that does not is the normalised       *)
(* offset of _move_room_away_from_conflict, which is truncated to the      *)
(* grid.  The truncation is an approximation of the float arithmetic: a    *)
(* position reached through a non-axis-aligned move is within one grid     *)
(* point per move of the float position, and a later overlap test on such  *)
(* a position can come out differently from the float one (two centers     *)
(* that the floats keep 0.03 apart can coincide on the grid).  Moves along *)
(* one axis, cardinal and diagonal placement, the guards of add_room and   *)
(* connect_rooms, the exits and the codec are exact.  The properties       *)
(* checked below on resolver output are stated over whatever position the  *)
(* resolver produces, not over particular non-axis-aligned coordinates.    *)
(***************************************************************************)
EXTENDS Integers, Sequences, FiniteSets, TLC

VARIABLES
  rooms,             \* WorldMap.rooms
  discovery_count,   \* WorldMap.discovery_count
  starting_room_id,  \* WorldMap.starting_room_id
  last,              \* the call that led to this state
  exhausted,         \* some resolver run so far used up its passes
  calls,             \* the number of calls made so far
  directions         \* the directions the driver of this run passes

vars ==
  <<rooms, discovery_count, starting_room_id, last, exhausted, calls, directions>>

store == <<rooms, discovery_count, starting_room_id>>

(***************************************************************************)
(* Bounds of the model.                                                    *)
(***************************************************************************)
MaxCalls == 4

Scale == 10

(***************************************************************************)
(* Program constants.                                                      *)
(***************************************************************************)
MaxIterations == 10

BufferMargin == 1

None == "None"

(***************************************************************************)
(* class Direction(Enum): the member names, and each member's value (the   *)
(* token the codec writes).                                                *)
(***************************************************************************)
Direction ==
  {"NORTH", "SOUTH", "EAST", "WEST", "NORTHEAST", "NORTHWEST",
   "SOUTHEAST", "SOUTHWEST", "UP", "DOWN"}

DirectionValue(d) ==
  CASE d = "NORTH" -> "north"
    [] d = "SOUTH" -> "south"
    [] d = "EAST" -> "east"
    [] d = "WEST" -> "west"
    [] d = "NORTHEAST" -> "northeast"
    [] d = "NORTHWEST" -> "northwest"
    [] d = "SOUTHEAST" -> "southeast"
    [] d = "SOUTHWEST" -> "southwest"
    [] d = "UP" -> "up"
    [] d = "DOWN" -> "down"

\* Direction(token): the member whose value is the token.
DirectionOfValue(token) == CHOOSE d \in Direction : DirectionValue(d) = token

\* A reverse_map without the two vertical directions.
GetReverseDirectionNoVertical(direction) ==
  CASE direction = "NORTH" -> "SOUTH"
    [] direction = "SOUTH" -> "NORTH"
    [] direction = "EAST" -> "WEST"
    [] direction = "WEST" -> "EAST"
    [] direction = "NORTHEAST" -> "SOUTHWEST"
    [] direction = "SOUTHWEST" -> "NORTHEAST"
    [] direction = "NORTHWEST" -> "SOUTHEAST"
    [] direction = "SOUTHEAST" -> "NORTHWEST"
    [] OTHER -> None

\* WorldMap._get_reverse_direction: reverse_map.get(direction)
GetReverseDirection(direction) ==
  CASE direction = "NORTH" -> "SOUTH"
    [] direction = "SOUTH" -> "NORTH"
    [] direction = "EAST" -> "WEST"
    [] direction = "WEST" -> "EAST"
    [] direction = "NORTHEAST" -> "SOUTHWEST"
    [] direction = "SOUTHWEST" -> "NORTHEAST"
    [] direction = "NORTHWEST" -> "SOUTHEAST"
    [] direction = "SOUTHEAST" -> "NORTHWEST"
    [] direction = "UP" -> "DOWN"
    [] direction = "DOWN" -> "UP"
    [] OTHER -> None

(***************************************************************************)
(* Dictionaries: a dict is a function on its key set.                      *)
(***************************************************************************)
EmptyDict == << >>

Put(dict, key, value) ==
  [k \in (DOMAIN dict) \cup {key} |-> IF k = key THEN value ELSE dict[k]]

(***************************************************************************)
(* RoomExit and Room.                                                      *)
(***************************************************************************)
\* A RoomExit that is never marked discovered.
RoomExitUndiscovered(direction, target_room_id, is_discovered) ==
  [direction |-> direction,
   target_room_id |-> target_room_id,
   is_discovered |-> FALSE]

RoomExit(direction, target_room_id, is_discovered) ==
  [direction |-> direction,
   target_room_id |-> target_room_id,
   is_discovered |-> is_discovered]

\* add_exit that leaves an occupied slot as it is.
AddExitKeepsFirst(room, direction, target_room_id) ==
  IF direction \in DOMAIN room.exits THEN room
  ELSE [room EXCEPT !.exits =
          Put(room.exits, direction,
              RoomExit(direction, target_room_id, target_room_id # None))]

\* add_exit that marks every exit discovered, with or without a target.
AddExitDiscovered(room, direction, target_room_id) ==
  [room EXCEPT !.exits =
     Put(room.exits, direction, RoomExit(direction, target_room_id, TRUE))]

\* Room.add_exit
AddExit(room, direction, target_room_id) ==
  [room EXCEPT !.exits =
     Put(room.exits, direction,
         RoomExit(direction, target_room_id, target_room_id # None))]

\* A Room built without the discovery_order argument, which then takes the
\* dataclass default.
NewRoomUnnumbered(room_id, name, description, width, height, is_starting_room, discovery_order) ==
  [id |-> room_id,
   name |-> name,
   description |-> description,
   width |-> width,
   height |-> height,
   x |-> 0,
   y |-> 0,
   exits |-> EmptyDict,
   is_starting_room |-> is_starting_room,
   discovery_order |-> 0]

\* Room(...): the dataclass constructor as add_room calls it; x, y and exits
\* take their defaults.
NewRoom(room_id, name, description, width, height, is_starting_room, discovery_order) ==
  [id |-> room_id,
   name |-> name,
   description |-> description,
   width |-> width,
   height |-> height,
   x |-> 0,
   y |-> 0,
   exits |-> EmptyDict,
   is_starting_room |-> is_starting_room,
   discovery_order |-> discovery_order]

(***************************************************************************)
(* Grid arithmetic.                                                        *)
(***************************************************************************)
Abs(n) == IF n < 0 THEN -n ELSE n

Sign(n) == IF n < 0 THEN -1 ELSE IF n > 0 THEN 1 ELSE 0

\* value * 0.7
Times07(value) == Sign(value) * ((Abs(value) * 7) \div 10)

\* The integer part of the square root of n, searched between lo and hi
\* (lo * lo <= n < (hi + 1) * (hi + 1)).
RECURSIVE ISqrtBetween(_, _, _)
ISqrtBetween(n, lo, hi) ==
  IF lo >= hi THEN lo
  ELSE LET mid == (lo + hi + 1) \div 2
       IN IF mid * mid <= n THEN ISqrtBetween(n, mid, hi)
          ELSE ISqrtBetween(n, lo, mid - 1)

ISqrt(n, hi) == ISqrtBetween(n, 0, hi)

\* (component / sqrt(square)) * length, truncated to the grid, where
\* square = dx*dx + dy*dy > 0 and component is dx or dy.
Normalised(component, square, length) ==
  Sign(component) *
    ISqrt(((Abs(component) * length) * (Abs(component) * length)) \div square, length)

(***************************************************************************)
(* The order of self.rooms.values(): a dict iterates in insertion order,   *)
(* add_room is the only code that inserts, and the k-th room it inserts    *)
(* gets discovery_order k.                                                 *)
(***************************************************************************)
RoomAt(rs, k) == CHOOSE id \in DOMAIN rs : rs[id].discovery_order = k

\* An overlap test that takes the horizontal extent from the heights.
RoomsOverlapByHeight(room1, room2) ==
  LET r1_left == room1.x - room1.height \div 2
      r1_right == room1.x + room1.height \div 2
      r1_bottom == room1.y - room1.height \div 2
      r1_top == room1.y + room1.height \div 2
      r2_left == room2.x - room2.height \div 2
      r2_right == room2.x + room2.height \div 2
      r2_bottom == room2.y - room2.height \div 2
      r2_top == room2.y + room2.height \div 2
  IN ~(r1_right <= r2_left \/ r1_left >= r2_right \/
       r1_top <= r2_bottom \/ r1_bottom >= r2_top)

\* WorldMap._rooms_overlap
RoomsOverlap(room1, room2) ==
  LET r1_left == room1.x - room1.width \div 2
      r1_right == room1.x + room1.width \div 2
      r1_bottom == room1.y - room1.height \div 2
      r1_top == room1.y + room1.height \div 2
      r2_left == room2.x - room2.width \div 2
      r2_right == room2.x + room2.width \div 2
      r2_bottom == room2.y - room2.height \div 2
      r2_top == room2.y + room2.height \div 2
  IN ~(r1_right <= r2_left \/ r1_left >= r2_right \/
       r1_top <= r2_bottom \/ r1_bottom >= r2_top)

\* A move that always goes along +x, as the code does for equal centers.
MoveRoomAlongX(moving_room, blocking_room) ==
  LET min_distance_x ==
        (moving_room.width + blocking_room.width) \div 2 + BufferMargin * Scale
      min_distance_y ==
        (moving_room.height + blocking_room.height) \div 2 + BufferMargin * Scale
      min_distance ==
        IF min_distance_x >= min_distance_y THEN min_distance_x ELSE min_distance_y
  IN [moving_room EXCEPT !.x = blocking_room.x + min_distance,
                         !.y = blocking_room.y]

\* WorldMap._move_room_away_from_conflict: the moving room, moved.
MoveRoomAwayFromConflict(moving_room, blocking_room) ==
  LET dx == moving_room.x - blocking_room.x
      dy == moving_room.y - blocking_room.y
      square == dx * dx + dy * dy
      min_distance_x ==
        (moving_room.width + blocking_room.width) \div 2 + BufferMargin * Scale
      min_distance_y ==
        (moving_room.height + blocking_room.height) \div 2 + BufferMargin * Scale
      min_distance ==
        IF min_distance_x >= min_distance_y THEN min_distance_x ELSE min_distance_y
      move_x == IF square = 0 THEN min_distance
                ELSE Normalised(dx, square, min_distance)
      move_y == IF square = 0 THEN 0
                ELSE Normalised(dy, square, min_distance)
  IN [moving_room EXCEPT !.x = blocking_room.x + move_x,
                         !.y = blocking_room.y + move_y]

\* A for loop without its break: the scan goes on to the end and keeps the
\* last room that overlaps.
RECURSIVE LastConflict(_, _, _)
LastConflict(rs, new_id, k) ==
  IF k > Cardinality(DOMAIN rs) THEN None
  ELSE LET existing == RoomAt(rs, k)
           later == LastConflict(rs, new_id, k + 1)
       IN IF later # None THEN later
          ELSE IF existing # new_id /\ RoomsOverlap(rs[new_id], rs[existing])
               THEN existing
               ELSE None

\* The inner for loop of _resolve_spatial_conflicts from the k-th room on:
\* the id of the first room other than new_id that overlaps it, or None.
RECURSIVE FirstConflict(_, _, _)
FirstConflict(rs, new_id, k) ==
  IF k > Cardinality(DOMAIN rs) THEN None
  ELSE LET existing == RoomAt(rs, k)
       IN IF existing # new_id /\ RoomsOverlap(rs[new_id], rs[existing])
          THEN existing
          ELSE FirstConflict(rs, new_id, k + 1)

\* The while loop of _resolve_spatial_conflicts from pass `iteration` on:
\* the rooms at its end, the passes that moved the room, and whether the
\* loop ended on a pass that found no conflict.
RECURSIVE ResolveFrom(_, _, _)
ResolveFrom(rs, new_id, iteration) ==
  IF iteration >= MaxIterations
  THEN [rooms |-> rs, room |-> new_id, iteration |-> iteration, converged |-> FALSE]
  ELSE LET blocking == FirstConflict(rs, new_id, 1)
       IN IF blocking = None
          THEN [rooms |-> rs, room |-> new_id, iteration |-> iteration,
                converged |-> TRUE]
          ELSE ResolveFrom(
                 [rs EXCEPT ![new_id] =
                    MoveRoomAwayFromConflict(rs[new_id], rs[blocking])],
                 new_id, iteration + 1)

\* A resolver that moves nothing.
ResolveNothing(rs, new_id) ==
  [rooms |-> rs, room |-> new_id, iteration |-> 0, converged |-> TRUE]

\* WorldMap._resolve_spatial_conflicts
ResolveSpatialConflicts(rs, new_id) == ResolveFrom(rs, new_id, 0)

\* Direction vectors whose cardinal entries take the distance of the other
\* axis.
DirectionVectorOtherAxis(direction, base_distance_x, base_distance_y) ==
  CASE direction = "NORTH" -> <<0, base_distance_x>>
    [] direction = "SOUTH" -> <<0, -base_distance_x>>
    [] direction = "EAST" -> <<base_distance_y, 0>>
    [] direction = "WEST" -> <<-base_distance_y, 0>>
    [] direction = "NORTHEAST" -> <<Times07(base_distance_x), Times07(base_distance_y)>>
    [] direction = "NORTHWEST" -> <<-Times07(base_distance_x), Times07(base_distance_y)>>
    [] direction = "SOUTHEAST" -> <<Times07(base_distance_x), -Times07(base_distance_y)>>
    [] direction = "SOUTHWEST" -> <<-Times07(base_distance_x), -Times07(base_distance_y)>>
    [] OTHER -> <<0, 0>>

\* direction_vectors.get(direction, (0, 0)) of _position_room_relative_to
DirectionVector(direction, base_distance_x, base_distance_y) ==
  CASE direction = "NORTH" -> <<0, base_distance_y>>
    [] direction = "SOUTH" -> <<0, -base_distance_y>>
    [] direction = "EAST" -> <<base_distance_x, 0>>
    [] direction = "WEST" -> <<-base_distance_x, 0>>
    [] direction = "NORTHEAST" -> <<Times07(base_distance_x), Times07(base_distance_y)>>
    [] direction = "NORTHWEST" -> <<-Times07(base_distance_x), Times07(base_distance_y)>>
    [] direction = "SOUTHEAST" -> <<Times07(base_distance_x), -Times07(base_distance_y)>>
    [] direction = "SOUTHWEST" -> <<-Times07(base_distance_x), -Times07(base_distance_y)>>
    [] direction = "UP" -> <<0, 0>>
    [] direction = "DOWN" -> <<0, 0>>
    [] OTHER -> <<0, 0>>

\* The coordinates _position_room_relative_to assigns before it resolves
\* conflicts.
RelativePosition(target_room, reference_room, direction) ==
  LET base_distance_x == (reference_room.width + target_room.width) \div 2
      base_distance_y == (reference_room.height + target_room.height) \div 2
      offset == DirectionVector(direction, base_distance_x, base_distance_y)
  IN <<reference_room.x + offset[1], reference_room.y + offset[2]>>

\* WorldMap._position_room_relative_to: the result of the resolver run on
\* the target room at its computed position.
PositionRoomRelativeTo(rs, target_id, reference_id, direction) ==
  LET position == RelativePosition(rs[target_id], rs[reference_id], direction)
  IN ResolveSpatialConflicts(
       [rs EXCEPT ![target_id].x = position[1], ![target_id].y = position[2]],
       target_id)

(***************************************************************************)
(* The record of the call that led to the current state: the operation,    *)
(* its arguments, whether it raised, the room add_room returned, and the   *)
(* resolver run it made (NoRun when it made none).                         *)
(***************************************************************************)
NoRun == [ran |-> FALSE, room |-> None, iteration |-> 0, converged |-> FALSE]

Ran(run) ==
  [ran |-> TRUE, room |-> run.room, iteration |-> run.iteration,
   converged |-> run.converged]

Last(op, args, raised, returned, resolver) ==
  [op |-> op, args |-> args, raised |-> raised, returned |-> returned,
   resolver |-> resolver]

\* WorldMap.__init__
EmptyStore ==
  /\ rooms = EmptyDict
  /\ discovery_count = 0
  /\ starting_room_id = None
  /\ last = Last("init", << >>, FALSE, None, NoRun)
  /\ exhausted = FALSE
  /\ calls = 0

\* A membership test that never finds the room.
HasRoomNever(rs, room_id) == FALSE

\* `room_id in self.rooms`
HasRoom(rs, room_id) == room_id \in DOMAIN rs

\* Anchoring on the flag alone, without the first-room rule.
AnchorsMapFlagOnly(rs, is_starting_room) == is_starting_room

\* The condition under which add_room anchors the new room at the origin
\* and makes it the starting room.
AnchorsMap(rs, is_starting_room) ==
  is_starting_room \/ Cardinality(DOMAIN rs) = 0

\* The placement test without the starting-room exemption.
IsUnplacedAtOrigin(to_room) == to_room.x = 0 /\ to_room.y = 0

\* The placement test without the sentinel test on the coordinates.
IsNotStartingRoom(to_room) == ~to_room.is_starting_room

\* The condition under which connect_rooms positions the target room.
IsUnplaced(to_room) ==
  to_room.x = 0 /\ to_room.y = 0 /\ ~to_room.is_starting_room

\* WorldMap.add_room
AddRoom(room_id, name, description, width, height, is_starting_room) ==
  /\ calls' = calls + 1
  /\ exhausted' = exhausted
  /\ LET add_args == <<room_id, name, description, width, height, is_starting_room>>
     IN
     IF HasRoom(rooms, room_id)
     THEN /\ last' = Last("add_room", add_args, FALSE, rooms[room_id], NoRun)
          /\ UNCHANGED store
     ELSE LET room == NewRoom(room_id, name, description, width, height,
                              is_starting_room, discovery_count + 1)
          IN /\ discovery_count' = discovery_count + 1
             /\ starting_room_id' =
                  IF AnchorsMap(rooms, is_starting_room)
                  THEN room_id ELSE starting_room_id
             /\ rooms' = Put(rooms, room_id, room)
             /\ last' = Last("add_room", add_args, FALSE, room, NoRun)

\* connect_rooms that adds the forward exit before it tests that both
\* rooms exist.
ConnectRoomsLateCheck(from_room_id, direction, to_room_id) ==
  /\ calls' = calls + 1
  /\ UNCHANGED <<discovery_count, starting_room_id, exhausted>>
  /\ last' = Last("connect_rooms", <<from_room_id, direction, to_room_id>>,
                  ~HasRoom(rooms, from_room_id) \/ ~HasRoom(rooms, to_room_id),
                  None, NoRun)
  /\ rooms' = IF HasRoom(rooms, from_room_id)
              THEN [rooms EXCEPT ![from_room_id] =
                      AddExit(rooms[from_room_id], direction, to_room_id)]
              ELSE rooms

\* WorldMap.connect_rooms
ConnectRooms(from_room_id, direction, to_room_id) ==
  /\ calls' = calls + 1
  /\ UNCHANGED <<discovery_count, starting_room_id>>
  /\ LET connect_args == <<from_room_id, direction, to_room_id>>
     IN
     IF ~HasRoom(rooms, from_room_id) \/ ~HasRoom(rooms, to_room_id)
     THEN /\ last' = Last("connect_rooms", connect_args, TRUE, None, NoRun)
          /\ UNCHANGED <<rooms, exhausted>>
     ELSE LET reverse_direction == GetReverseDirection(direction)
              forward == [rooms EXCEPT ![from_room_id] =
                            AddExit(rooms[from_room_id], direction, to_room_id)]
              linked == IF reverse_direction # None
                        THEN [forward EXCEPT ![to_room_id] =
                                AddExit(forward[to_room_id], reverse_direction,
                                        from_room_id)]
                        ELSE forward
              to_room == linked[to_room_id]
          IN IF IsUnplaced(to_room)
             THEN LET run == PositionRoomRelativeTo(linked, to_room_id,
                                                    from_room_id, direction)
                  IN /\ rooms' = run.rooms
                     /\ exhausted' = (exhausted \/ ~run.converged)
                     /\ last' = Last("connect_rooms", connect_args, FALSE, None,
                                     Ran(run))
             ELSE /\ rooms' = linked
                  /\ exhausted' = exhausted
                  /\ last' = Last("connect_rooms", connect_args, FALSE, None, NoRun)

\* WorldMap.discover_exit
DiscoverExit(room_id, direction) ==
  /\ calls' = calls + 1
  /\ UNCHANGED <<discovery_count, starting_room_id, exhausted>>
  /\ last' = Last("discover_exit", <<room_id, direction>>, FALSE, None, NoRun)
  /\ rooms' = IF HasRoom(rooms, room_id)
              THEN [rooms EXCEPT ![room_id] = AddExit(rooms[room_id], direction, None)]
              ELSE rooms

(***************************************************************************)
(* WorldMap.get_map_bounds: (min_x, min_y, max_x, max_y).                  *)
(***************************************************************************)
\* min(...) and max(...) of a non-empty collection
Min(values) == CHOOSE m \in values : \A v \in values : m <= v

Max(values) == CHOOSE m \in values : \A v \in values : m >= v

\* The bounding box of the room centers, the extents left out.
GetMapBoundsOfCenters(rs) ==
  IF DOMAIN rs = {} THEN <<0, 0, 0, 0>>
  ELSE <<Min({rs[r].x : r \in DOMAIN rs}),
         Min({rs[r].y : r \in DOMAIN rs}),
         Max({rs[r].x : r \in DOMAIN rs}),
         Max({rs[r].y : r \in DOMAIN rs})>>

GetMapBounds(rs) ==
  IF DOMAIN rs = {} THEN <<0, 0, 0, 0>>
  ELSE LET min_x == Min({rs[r].x - rs[r].width \div 2 : r \in DOMAIN rs})
           max_x == Max({rs[r].x + rs[r].width \div 2 : r \in DOMAIN rs})
           min_y == Min({rs[r].y - rs[r].height \div 2 : r \in DOMAIN rs})
           max_y == Max({rs[r].y + rs[r].height \div 2 : r \in DOMAIN rs})
       IN <<min_x, min_y, max_x, max_y>>

(***************************************************************************)
(* The persistence codec.  A stored record is a dict keyed by strings; a   *)
(* dict.get(key, default) is Get.                                          *)
(***************************************************************************)
Get(dict, key, default) == IF key \in DOMAIN dict THEN dict[key] ELSE default

\* The dict to_dict writes for one exit.
EncodeExit(exit_info) ==
  [direction |-> DirectionValue(exit_info.direction),
   target_room_id |-> exit_info.target_room_id,
   is_discovered |-> exit_info.is_discovered]

\* A room dict without the is_starting_room key.
EncodeRoomWithoutFlag(room) ==
  [id |-> room.id,
   name |-> room.name,
   description |-> room.description,
   width |-> room.width,
   height |-> room.height,
   x |-> room.x,
   y |-> room.y,
   discovery_order |-> room.discovery_order,
   exits |->
     [token \in {DirectionValue(d) : d \in DOMAIN room.exits} |->
        EncodeExit(room.exits[DirectionOfValue(token)])]]

\* The dict to_dict writes for one room: its exits are keyed by the value
\* of the direction they are stored under.
EncodeRoom(room) ==
  [id |-> room.id,
   name |-> room.name,
   description |-> room.description,
   width |-> room.width,
   height |-> room.height,
   x |-> room.x,
   y |-> room.y,
   is_starting_room |-> room.is_starting_room,
   discovery_order |-> room.discovery_order,
   exits |->
     [token \in {DirectionValue(d) : d \in DOMAIN room.exits} |->
        EncodeExit(room.exits[DirectionOfValue(token)])]]

\* WorldMap.to_dict
ToDict(rs, count, starting) ==
  [discovery_count |-> count,
   starting_room_id |-> starting,
   rooms |-> [room_id \in DOMAIN rs |-> EncodeRoom(rs[room_id])]]

\* The RoomExit from_dict builds in its second pass.
DecodeExit(exit_data) ==
  RoomExit(DirectionOfValue(exit_data.direction),
           Get(exit_data, "target_room_id", None),
           Get(exit_data, "is_discovered", FALSE))

\* The Room from_dict builds in its first pass, with the exits its second
\* pass stores under Direction(direction_str).
DecodeRoom(room_data) ==
  [id |-> room_data.id,
   name |-> room_data.name,
   description |-> room_data.description,
   width |-> room_data.width,
   height |-> room_data.height,
   x |-> room_data.x,
   y |-> room_data.y,
   exits |->
     LET stored == Get(room_data, "exits", EmptyDict)
     IN [d \in {DirectionOfValue(token) : token \in DOMAIN stored} |->
           DecodeExit(stored[DirectionValue(d)])],
   is_starting_room |-> Get(room_data, "is_starting_room", FALSE),
   discovery_order |-> Get(room_data, "discovery_order", 0)]

\* WorldMap.from_dict
FromDict(data) ==
  LET stored == Get(data, "rooms", EmptyDict)
  IN [discovery_count |-> Get(data, "discovery_count", 0),
      starting_room_id |-> Get(data, "starting_room_id", None),
      rooms |-> [room_id \in DOMAIN stored |-> DecodeRoom(stored[room_id])]]

\* Direction(token) raises ValueError unless the token is the value of a
\* member.
DirectionValues == {DirectionValue(d) : d \in Direction}

\* The keys from_dict reads with room_data[...], which raises KeyError when
\* the key is missing; the other keys are read with .get and a default.
RequiredRoomKeys == {"id", "name", "description", "width", "height", "x", "y"}

\* from_dict raises on this record: a room lacks a key read with [...], an
\* exit is stored under a token that is no direction value, or an exit
\* lacks its direction or has one that is no direction value.
FromDictRaises(data) ==
  LET stored == Get(data, "rooms", EmptyDict)
  IN \E room_id \in DOMAIN stored :
       \/ ~(RequiredRoomKeys \subseteq DOMAIN stored[room_id])
       \/ LET exits == Get(stored[room_id], "exits", EmptyDict)
          IN \E token \in DOMAIN exits :
               \/ token \notin DirectionValues
               \/ "direction" \notin DOMAIN exits[token]
               \/ exits[token].direction \notin DirectionValues

\* WorldMap.from_dict as a call: the store it returns replaces the store,
\* unless it raises.
LoadFromDict(data) ==
  /\ calls' = calls + 1
  /\ exhausted' = exhausted
  /\ IF FromDictRaises(data)
     THEN /\ last' = Last("from_dict", <<data>>, TRUE, None, NoRun)
          /\ UNCHANGED store
     ELSE LET world_map == FromDict(data)
          IN /\ last' = Last("from_dict", <<data>>, FALSE, None, NoRun)
             /\ rooms' = world_map.rooms
             /\ discovery_count' = world_map.discovery_count
             /\ starting_room_id' = world_map.starting_room_id

(***************************************************************************)
(* The calls a driver makes.  Room ids are opaque keys, so a new room      *)
(* takes the next unused id of IdPool; any id of the pool may be named in  *)
(* a call, present or not.  Extents are even numbers of world units, so    *)
(* every half extent is on the grid.                                       *)
(***************************************************************************)
IdPool == <<"a", "b", "c">>

RoomIds == {IdPool[i] : i \in 1..Len(IdPool)}

\* The id of the next new room, while the pool has one.
FreshIds(pool) ==
  IF discovery_count < Len(pool) THEN {pool[discovery_count + 1]} ELSE {}

\* name, description, width, height
RoomProfiles == {<<"n1", "d1", 10, 8>>, <<"n2", "d2", 6, 6>>}

DirectionInputs == {"NORTH", "NORTHEAST", "UP"}

\* A direction together with its reverse, for each of the directions.
DirectionPairs == {{d, GetReverseDirection(d)} : d \in Direction}

AddRoomCalls(profiles, pool) ==
  \E room_id \in (DOMAIN rooms) \cup FreshIds(pool), profile \in profiles,
     is_starting_room \in BOOLEAN :
    AddRoom(room_id, profile[1], profile[2], profile[3] * Scale,
            profile[4] * Scale, is_starting_room)

ConnectRoomsCalls ==
  \E from_room_id \in RoomIds, direction \in directions, to_room_id \in RoomIds :
    ConnectRooms(from_room_id, direction, to_room_id)

DiscoverExitCalls ==
  \E room_id \in RoomIds, direction \in directions :
    DiscoverExit(room_id, direction)

\* Any sequence of at most MaxCalls calls.
Next ==
  /\ calls < MaxCalls
  /\ UNCHANGED directions
  /\ \/ AddRoomCalls(RoomProfiles, IdPool)
     \/ ConnectRoomsCalls
     \/ DiscoverExitCalls

\* A driver that mixes a cardinal, an intercardinal and a vertical direction.
Init == EmptyStore /\ directions = DirectionInputs

Spec == Init /\ [][Next]_vars

\* A driver that passes one direction and its reverse, for each direction.
InitPaired == EmptyStore /\ directions \in DirectionPairs

\* Any sequence of at most MaxCalls calls on at most two rooms.
NextPaired ==
  /\ calls < MaxCalls
  /\ UNCHANGED directions
  /\ \/ AddRoomCalls(RoomProfiles, SubSeq(IdPool, 1, 2))
     \/ ConnectRoomsCalls
     \/ DiscoverExitCalls

SpecPaired == InitPaired /\ [][NextPaired]_vars

(***************************************************************************)
(* An incremental exploration: the first room is added as the starting     *)
(* room; every further room is added and at once connected as the target   *)
(* from a room that is already placed.                                     *)
(***************************************************************************)
MaxRooms == 4

ExploreIds == <<"a", "b", "c", "d", "e", "f">>

ExploreDirections == {"NORTH", "EAST", "SOUTHWEST", "UP"}

\* The room added last still waits for its connection.
Pending == last.op = "add_room" /\ discovery_count >= 2

ExploreStart ==
  /\ discovery_count = 0
  /\ \E profile \in RoomProfiles :
       AddRoom(ExploreIds[1], profile[1], profile[2], profile[3] * Scale,
               profile[4] * Scale, TRUE)

ExploreAdd ==
  /\ discovery_count >= 1
  /\ discovery_count < MaxRooms
  /\ ~Pending
  /\ \E room_id \in FreshIds(ExploreIds), profile \in RoomProfiles :
       AddRoom(room_id, profile[1], profile[2], profile[3] * Scale,
               profile[4] * Scale, FALSE)

ExploreConnect ==
  /\ Pending
  /\ \E from_room_id \in (DOMAIN rooms) \ {last.args[1]}, direction \in directions :
       ConnectRooms(from_room_id, direction, last.args[1])

NextExplore ==
  /\ UNCHANGED directions
  /\ (ExploreStart \/ ExploreAdd \/ ExploreConnect)

InitExplore == EmptyStore /\ directions = ExploreDirections

SpecExplore == InitExplore /\ [][NextExplore]_vars

(***************************************************************************)
(* test_spatial_positioning: a 4x4 center added as the starting room, four *)
(* rooms added in some order, then each connected from the center in its   *)
(* own direction, in some order.                                           *)
(***************************************************************************)
\* id, name, description, width, height, direction from the center
CompassRooms ==
  {<<"north", "North", "North room.", 6, 4, "NORTH">>,
   <<"south", "South", "South room.", 6, 4, "SOUTH">>,
   <<"east", "East", "East room.", 4, 6, "EAST">>,
   <<"west", "West", "West room.", 4, 6, "WEST">>}

CompassCenter ==
  /\ discovery_count = 0
  /\ AddRoom("center", "Center", "Center room.", 4 * Scale, 4 * Scale, TRUE)

CompassAdd ==
  /\ discovery_count >= 1
  /\ \E c \in CompassRooms :
       /\ c[1] \notin DOMAIN rooms
       /\ AddRoom(c[1], c[2], c[3], c[4] * Scale, c[5] * Scale, FALSE)

CompassConnect ==
  /\ discovery_count = Cardinality(CompassRooms) + 1
  /\ \E c \in CompassRooms :
       /\ rooms[c[1]].exits = EmptyDict
       /\ ConnectRooms("center", c[6], c[1])

NextCompass ==
  /\ UNCHANGED directions
  /\ (CompassCenter \/ CompassAdd \/ CompassConnect)

InitCompass == EmptyStore /\ directions = {c[6] : c \in CompassRooms}

SpecCompass == InitCompass /\ [][NextCompass]_vars

(***************************************************************************)
(* A driver that also passes extents that are zero or negative.            *)
(***************************************************************************)
\* name, description, width, height
GeometryProfiles ==
  {<<"n1", "d1", 10, 8>>, <<"n3", "d3", 0, 6>>, <<"n4", "d4", -2, 6>>}

\* Any sequence of at most MaxCalls calls on at most two rooms.
NextGeometry ==
  /\ calls < MaxCalls
  /\ UNCHANGED directions
  /\ \/ AddRoomCalls(GeometryProfiles, SubSeq(IdPool, 1, 2))
     \/ ConnectRoomsCalls
     \/ DiscoverExitCalls

InitGeometry == EmptyStore /\ directions = DirectionInputs

SpecGeometry == InitGeometry /\ [][NextGeometry]_vars

(***************************************************************************)
(* A driver that saves the store it has built, damages the record in one   *)
(* place or not at all, and loads it; the load ends the run.               *)
(***************************************************************************)
UnknownToken == "sideways"

Without(dict, key) == [k \in (DOMAIN dict) \ {key} |-> dict[k]]

Renamed(dict, key, new_key) ==
  [k \in ((DOMAIN dict) \ {key}) \cup {new_key} |->
     IF k = new_key THEN dict[key] ELSE dict[k]]

RoomKeys ==
  {"id", "name", "description", "width", "height", "x", "y",
   "is_starting_room", "discovery_order", "exits"}

ExitKeys == {"direction", "target_room_id", "is_discovered"}

\* The record itself, and the record with one key removed at the top, in a
\* room or in an exit, or with one direction token replaced by an unknown
\* one (as the key of an exit or as its direction).
DamagedRecords(data) ==
  {data}
    \cup {Without(data, k) : k \in DOMAIN data}
    \cup {[data EXCEPT !.rooms[r] = Without(@, k)] :
            r \in DOMAIN data.rooms, k \in RoomKeys}
    \cup UNION {{[data EXCEPT !.rooms[r].exits[t] = Without(@, k)] :
                   t \in DOMAIN data.rooms[r].exits, k \in ExitKeys} :
                r \in DOMAIN data.rooms}
    \cup UNION {{[data EXCEPT !.rooms[r].exits = Renamed(@, t, UnknownToken)] :
                   t \in DOMAIN data.rooms[r].exits} :
                r \in DOMAIN data.rooms}
    \cup UNION {{[data EXCEPT !.rooms[r].exits[t].direction = UnknownToken] :
                   t \in DOMAIN data.rooms[r].exits} :
                r \in DOMAIN data.rooms}

LoadFromDictCalls ==
  \E data \in DamagedRecords(ToDict(rooms, discovery_count, starting_room_id)) :
    LoadFromDict(data)

NextDecode ==
  /\ calls < MaxCalls
  /\ last.op # "from_dict"
  /\ UNCHANGED directions
  /\ \/ AddRoomCalls(RoomProfiles, SubSeq(IdPool, 1, 2))
     \/ ConnectRoomsCalls
     \/ DiscoverExitCalls
     \/ LoadFromDictCalls

InitDecode == EmptyStore /\ directions = DirectionInputs

SpecDecode == InitDecode /\ [][NextDecode]_vars

(***************************************************************************)
(* Properties.                                                             *)
(***************************************************************************)
LastIs(op) == last.op = op

AtOrigin(room) == room.x = 0 /\ room.y = 0

\* Two rectangles, each a center with half its extent to either side,
\* share interior points.
RectanglesOverlap(room1, room2) ==
  /\ 2 * Abs(room1.x - room2.x) < room1.width + room2.width
  /\ 2 * Abs(room1.y - room2.y) < room1.height + room2.height

\* The exit of room r in direction d leads to room t and is discovered.
LeadsTo(rs, r, d, t) ==
  /\ d \in DOMAIN rs[r].exits
  /\ rs[r].exits[d].target_room_id = t
  /\ rs[r].exits[d].is_discovered

\* C1: right after connect_rooms(a, d, b) on two existing rooms (a = b
\* included), a's exit d leads to b, b's exit reverse(d) leads to a, and
\* both are discovered, whatever was in those slots before.
C1_ConnectLinksBothWays ==
  (LastIs("connect_rooms") /\ last.args[1] \in DOMAIN rooms
                           /\ last.args[3] \in DOMAIN rooms) =>
    /\ LeadsTo(rooms, last.args[1], last.args[2], last.args[3])
    /\ LeadsTo(rooms, last.args[3], GetReverseDirection(last.args[2]), last.args[1])

\* After connect_rooms(a, SOUTHWEST, b) with b # a, a's NORTHEAST exit still
\* leads to a itself: a was connected to itself before, so this call
\* overwrote a's SOUTHWEST exit.
C1_Witness ==
  /\ LastIs("connect_rooms")
  /\ ~last.raised
  /\ last.args[2] = "SOUTHWEST"
  /\ last.args[1] # last.args[3]
  /\ LeadsTo(rooms, last.args[1], "NORTHEAST", last.args[1])
  /\ LeadsTo(rooms, last.args[1], "SOUTHWEST", last.args[3])

\* C2: add_room with an id that is not in the store creates the room with
\* discovery_order = old discovery_count + 1; if is_starting_room is true or
\* the store was empty the room is at (0,0) and starting_room_id becomes its
\* id, otherwise starting_room_id is unchanged.
C2_AddRoomCreates ==
  [][(last'.op = "add_room" /\ last'.args[1] \notin DOMAIN rooms) =>
       LET room_id == last'.args[1]
       IN /\ room_id \in DOMAIN rooms'
          /\ rooms'[room_id].discovery_order = discovery_count + 1
          /\ IF last'.args[6] \/ DOMAIN rooms = {}
             THEN /\ AtOrigin(rooms'[room_id])
                  /\ starting_room_id' = room_id
             ELSE starting_room_id' = starting_room_id]_vars

\* The first room was added without the flag and became the starting room;
\* the second, also added without it, did not.
C2_Witness ==
  /\ LastIs("add_room")
  /\ ~last.args[6]
  /\ calls = 2
  /\ discovery_count = 2
  /\ rooms[last.args[1]].discovery_order = 2
  /\ starting_room_id # last.args[1]
  /\ ~rooms[starting_room_id].is_starting_room

\* C3: add_room with an id already in the store, whatever its other
\* arguments, returns the existing room and leaves the store unchanged.
C3_AddRoomIdempotent ==
  [][(last'.op = "add_room" /\ last'.args[1] \in DOMAIN rooms) =>
       /\ UNCHANGED store
       /\ last'.returned = rooms[last'.args[1]]]_vars

\* add_room was called on an existing room with another name, other
\* extents and another flag than the room has.
C3_Witness ==
  /\ LastIs("add_room")
  /\ calls > discovery_count
  /\ LET room == rooms[last.args[1]]
     IN /\ room.name # last.args[2]
        /\ room.width # last.args[4]
        /\ room.height # last.args[5]
        /\ room.is_starting_room # last.args[6]
        /\ room.exits # EmptyDict
        /\ last.returned = room

\* C4: decoding the encoded store gives back the store, field for field.
C4_RoundTrip ==
  LET decoded == FromDict(ToDict(rooms, discovery_count, starting_room_id))
  IN /\ decoded.discovery_count = discovery_count
     /\ decoded.starting_room_id = starting_room_id
     /\ DOMAIN decoded.rooms = DOMAIN rooms
     /\ \A room_id \in DOMAIN rooms :
          LET room == rooms[room_id]
              copy == decoded.rooms[room_id]
          IN /\ copy.id = room.id
             /\ copy.name = room.name
             /\ copy.description = room.description
             /\ copy.width = room.width
             /\ copy.height = room.height
             /\ copy.x = room.x
             /\ copy.y = room.y
             /\ copy.is_starting_room = room.is_starting_room
             /\ copy.discovery_order = room.discovery_order
             /\ DOMAIN copy.exits = DOMAIN room.exits
             /\ \A d \in DOMAIN room.exits : copy.exits[d] = room.exits[d]

\* A store with a starting room, a room placed away from the origin, an
\* exit that leads to a room and an exit with no target.
C4_Witness ==
  /\ \E r \in DOMAIN rooms : rooms[r].is_starting_room
  /\ \E r \in DOMAIN rooms : ~AtOrigin(rooms[r])
  /\ \E r \in DOMAIN rooms : \E d \in DOMAIN rooms[r].exits :
       rooms[r].exits[d].target_room_id # None
  /\ \E r \in DOMAIN rooms : \E d \in DOMAIN rooms[r].exits :
       rooms[r].exits[d].target_room_id = None

NoResolverRunExhausted == ~exhausted

\* C5 as stated: while no resolver run has used up its passes, no two
\* distinct rooms of the store overlap.
C5_NoTwoRoomsOverlap ==
  NoResolverRunExhausted =>
    \A r1 \in DOMAIN rooms, r2 \in DOMAIN rooms :
      r1 # r2 => ~RectanglesOverlap(rooms[r1], rooms[r2])

\* C5, amended: a room that connect_rooms has just placed with a resolver
\* run that ended on a pass without conflict overlaps no other room; and
\* while no resolver run has used up its passes, two distinct rooms overlap
\* only if one of them is at (0,0).
C5_PlacedRoomsDoNotOverlap ==
  /\ (last.resolver.ran /\ last.resolver.converged) =>
       \A r \in DOMAIN rooms \ {last.resolver.room} :
         ~RectanglesOverlap(rooms[last.resolver.room], rooms[r])
  /\ NoResolverRunExhausted =>
       \A r1 \in DOMAIN rooms, r2 \in DOMAIN rooms :
         (r1 # r2 /\ RectanglesOverlap(rooms[r1], rooms[r2])) =>
           (AtOrigin(rooms[r1]) \/ AtOrigin(rooms[r2]))

\* The resolver moved the room just placed at least once and ended on a
\* pass without conflict; two rooms are away from the origin.
C5_Witness ==
  /\ NoResolverRunExhausted
  /\ last.resolver.ran
  /\ last.resolver.converged
  /\ last.resolver.iteration >= 1
  /\ \E r1 \in DOMAIN rooms, r2 \in DOMAIN rooms :
       r1 # r2 /\ ~AtOrigin(rooms[r1]) /\ ~AtOrigin(rooms[r2])

\* C6: in an incremental exploration, once every room added has been
\* connected, and if every resolver run ended on a pass that found no
\* overlap, no two rooms of the store overlap.
C6_ExplorationHasNoOverlap ==
  (NoResolverRunExhausted /\ ~Pending) =>
    \A r1 \in DOMAIN rooms, r2 \in DOMAIN rooms :
      r1 # r2 => ~RectanglesOverlap(rooms[r1], rooms[r2])

\* Four rooms explored, the last one moved at least twice by a resolver
\* run that then found no overlap.
C6_Witness ==
  /\ discovery_count = 4
  /\ LastIs("connect_rooms")
  /\ NoResolverRunExhausted
  /\ last.resolver.ran
  /\ last.resolver.iteration >= 2

Cardinal == {"NORTH", "SOUTH", "EAST", "WEST"}

Left(room) == room.x - room.width \div 2

Right(room) == room.x + room.width \div 2

Bottom(room) == room.y - room.height \div 2

Top(room) == room.y + room.height \div 2

\* C7: connect_rooms(a, d, b) with d cardinal, b # a unplaced and not the
\* starting room, and b's computed position in conflict with no room, puts
\* b's center at a's, displaced along d's axis only by half the sum of the
\* two extents on that axis: the rectangles share an edge and do not
\* overlap.
C7_CardinalPlacementTouches ==
  (/\ LastIs("connect_rooms")
   /\ last.resolver.ran
   /\ last.resolver.converged
   /\ last.resolver.iteration = 0
   /\ last.args[2] \in Cardinal
   /\ last.args[1] # last.args[3]) =>
    LET a == rooms[last.args[1]]
        b == rooms[last.args[3]]
        d == last.args[2]
    IN /\ d = "NORTH" =>
            /\ b.x = a.x
            /\ 2 * (b.y - a.y) = a.height + b.height
            /\ Bottom(b) = Top(a)
       /\ d = "SOUTH" =>
            /\ b.x = a.x
            /\ 2 * (a.y - b.y) = a.height + b.height
            /\ Top(b) = Bottom(a)
       /\ d = "EAST" =>
            /\ b.y = a.y
            /\ 2 * (b.x - a.x) = a.width + b.width
            /\ Left(b) = Right(a)
       /\ d = "WEST" =>
            /\ b.y = a.y
            /\ 2 * (a.x - b.x) = a.width + b.width
            /\ Right(b) = Left(a)
       /\ ~RectanglesOverlap(a, b)

\* A 10x8 starting room at the origin and a 6x6 room connected to its
\* north, which is then at (0, 7).
C7_Witness ==
  /\ LastIs("connect_rooms")
  /\ last.resolver.ran
  /\ last.resolver.iteration = 0
  /\ last.args[2] = "NORTH"
  /\ LET a == rooms[last.args[1]]
         b == rooms[last.args[3]]
     IN /\ a.is_starting_room /\ AtOrigin(a)
        /\ a.width = 10 * Scale /\ a.height = 8 * Scale
        /\ b.width = 6 * Scale /\ b.height = 6 * Scale
        /\ b.x = 0 /\ b.y = 7 * Scale

\* The compass room has been connected from the center.
CompassConnected(room_id) ==
  room_id \in DOMAIN rooms /\ rooms[room_id].exits # EmptyDict

\* C8: in the compass scenario every connected room is on its axis (north
\* x = 0 and y > 0, south x = 0 and y < 0, east y = 0 and x > 0, west
\* y = 0 and x < 0) and the center stays at (0,0).
C8_CompassRoomsOnAxes ==
  /\ "center" \in DOMAIN rooms => AtOrigin(rooms["center"])
  /\ CompassConnected("north") => (rooms["north"].x = 0 /\ rooms["north"].y > 0)
  /\ CompassConnected("south") => (rooms["south"].x = 0 /\ rooms["south"].y < 0)
  /\ CompassConnected("east") => (rooms["east"].y = 0 /\ rooms["east"].x > 0)
  /\ CompassConnected("west") => (rooms["west"].y = 0 /\ rooms["west"].x < 0)

\* The rooms added and connected in the order of the test: the north room
\* was moved off the unplaced east room to (0, 6), south is at (0, -6),
\* east at (4, 0) and west at (-4, 0).
C8_Witness ==
  /\ \A c \in CompassRooms : CompassConnected(c[1])
  /\ rooms["north"].discovery_order = 2 /\ rooms["west"].discovery_order = 5
  /\ rooms["north"].x = 0 /\ rooms["north"].y = 6 * Scale
  /\ rooms["south"].x = 0 /\ rooms["south"].y = -6 * Scale
  /\ rooms["east"].x = 4 * Scale /\ rooms["east"].y = 0
  /\ rooms["west"].x = -4 * Scale /\ rooms["west"].y = 0

\* C9: at most one room has is_starting_room = TRUE.
C9_AtMostOneStartingRoom ==
  Cardinality({r \in DOMAIN rooms : rooms[r].is_starting_room}) <= 1

\* C10: every room with is_starting_room = TRUE is at (0,0), and no
\* resolver run is made on such a room.
C10_StartingRoomsStayAtOrigin ==
  /\ \A r \in DOMAIN rooms : rooms[r].is_starting_room => AtOrigin(rooms[r])
  /\ last.resolver.ran => ~rooms[last.resolver.room].is_starting_room

\* A room with the flag was the target of a connect_rooms call from
\* another room, and a room has been placed away from the origin.
C10_Witness ==
  /\ LastIs("connect_rooms")
  /\ ~last.raised
  /\ last.args[1] # last.args[3]
  /\ rooms[last.args[3]].is_starting_room
  /\ ~rooms[last.args[1]].is_starting_room
  /\ ~AtOrigin(rooms[last.args[1]])

\* C11: connect_rooms with a from or to id that is not in the store raises
\* and leaves the store (rooms with their exits and coordinates, both
\* counters) unchanged.
C11_ConnectUnknownRoomRaises ==
  [][(last'.op = "connect_rooms" /\ (last'.args[1] \notin DOMAIN rooms
                                     \/ last'.args[3] \notin DOMAIN rooms)) =>
       /\ last'.raised
       /\ UNCHANGED store]_vars

\* connect_rooms raised on a call from an existing room to a missing one.
C11_Witness ==
  /\ LastIs("connect_rooms")
  /\ last.raised
  /\ last.args[1] \in DOMAIN rooms
  /\ last.args[3] \notin DOMAIN rooms
  /\ rooms[last.args[1]].exits = EmptyDict

\* C12: add_room with a new id and a width or height <= 0 raises and adds
\* no room; so every room of the store has a width and a height > 0.
C12_NoRoomHasBadGeometry ==
  \A r \in DOMAIN rooms : rooms[r].width > 0 /\ rooms[r].height > 0

\* C13: discover_exit on a room id that is not in the store raises.
C13_DiscoverUnknownRoomRaises ==
  (LastIs("discover_exit") /\ last.args[1] \notin DOMAIN rooms) => last.raised

\* C14: discover_exit(r, d) on an existing room r sets r's exit d to an
\* exit with no target that is not discovered, whatever the slot held, and
\* changes nothing else: r's other exits and fields, the other rooms and
\* the two counters are unchanged.
C14_DiscoverExitSetsOneSlot ==
  [][(last'.op = "discover_exit" /\ last'.args[1] \in DOMAIN rooms) =>
       LET r == last'.args[1]
           d == last'.args[2]
       IN /\ UNCHANGED <<discovery_count, starting_room_id>>
          /\ DOMAIN rooms' = DOMAIN rooms
          /\ \A o \in DOMAIN rooms \ {r} : rooms'[o] = rooms[o]
          /\ [rooms'[r] EXCEPT !.exits = rooms[r].exits] = rooms[r]
          /\ DOMAIN rooms'[r].exits = DOMAIN rooms[r].exits \cup {d}
          /\ \A e \in DOMAIN rooms[r].exits \ {d} :
               rooms'[r].exits[e] = rooms[r].exits[e]
          /\ rooms'[r].exits[d].target_room_id = None
          /\ ~rooms'[r].exits[d].is_discovered]_vars

\* discover_exit(r, d) overwrote one half of a connection of r to itself:
\* r's reverse exit still leads to r; another room is in the store.
C14_Witness ==
  /\ LastIs("discover_exit")
  /\ last.args[1] \in DOMAIN rooms
  /\ DOMAIN rooms # {last.args[1]}
  /\ LET r == last.args[1]
         d == last.args[2]
     IN /\ rooms[r].exits[d].target_room_id = None
        /\ LeadsTo(rooms, r, GetReverseDirection(d), r)

\* C15: every exit of every room is discovered exactly when it has a
\* target, and the exit stored under direction d has direction d.
C15_ExitsAreConsistent ==
  \A r \in DOMAIN rooms : \A d \in DOMAIN rooms[r].exits :
    /\ rooms[r].exits[d].is_discovered = (rooms[r].exits[d].target_room_id # None)
    /\ rooms[r].exits[d].direction = d

\* One room has an exit with a target and an exit without.
C15_Witness ==
  \E r \in DOMAIN rooms :
    /\ \E d \in DOMAIN rooms[r].exits : rooms[r].exits[d].target_room_id = None
    /\ \E d \in DOMAIN rooms[r].exits : rooms[r].exits[d].target_room_id # None

\* C16: the discovery_order values of the rooms are pairwise distinct
\* positive integers; a room that a call adds gets a value above those of
\* all rooms added before it; and no call changes the discovery_order of a
\* room that is in the store, or removes the room.
C16_DiscoveryOrderIsStable ==
  /\ [](\A r1 \in DOMAIN rooms, r2 \in DOMAIN rooms :
          /\ rooms[r1].discovery_order > 0
          /\ r1 # r2 => rooms[r1].discovery_order # rooms[r2].discovery_order)
  /\ [][(\A r \in DOMAIN rooms :
            /\ r \in DOMAIN rooms'
            /\ rooms'[r].discovery_order = rooms[r].discovery_order)
         /\
         (\A n \in (DOMAIN rooms') \ (DOMAIN rooms) :
            /\ rooms'[n].discovery_order > 0
            /\ \A r \in DOMAIN rooms :
                 rooms'[n].discovery_order > rooms[r].discovery_order)]_vars

\* Three rooms numbered 1, 2, 3 in the order of their creation, and then a
\* repeated add_room on the first of them with other arguments.
C16_Witness ==
  /\ LastIs("add_room")
  /\ calls = 4
  /\ discovery_count = 3
  /\ \A i \in 1..3 : rooms[IdPool[i]].discovery_order = i
  /\ last.args[1] = IdPool[1]
  /\ last.args[6] # rooms[IdPool[1]].is_starting_room

\* C17: connect_rooms(from, d, to) changes the coordinates of no room but
\* `to`, and those of `to` only if, when the call is made, `to` is at (0,0)
\* and is not flagged as the starting room.
C17_ConnectMovesOnlyUnplacedTarget ==
  [][last'.op = "connect_rooms" =>
       /\ DOMAIN rooms' = DOMAIN rooms
       /\ \A r \in DOMAIN rooms :
            (rooms'[r].x # rooms[r].x \/ rooms'[r].y # rooms[r].y) =>
              /\ r = last'.args[3]
              /\ AtOrigin(rooms[r])
              /\ ~rooms[r].is_starting_room]_vars

\* connect_rooms was called with a `to` room that an earlier call had
\* placed away from the origin and that overlaps the `from` room at its
\* position: no resolver run was made.
C17_Witness ==
  /\ LastIs("connect_rooms")
  /\ ~last.raised
  /\ ~last.resolver.ran
  /\ last.args[1] # last.args[3]
  /\ ~AtOrigin(rooms[last.args[3]])
  /\ ~rooms[last.args[3]].is_starting_room
  /\ RectanglesOverlap(rooms[last.args[1]], rooms[last.args[3]])

\* C18: get_map_bounds gives (0,0,0,0) on an empty store; otherwise the
\* box (min_x, min_y, max_x, max_y) it gives contains the rectangle of every
\* room and each of its four sides is the side of some room; one 4x4 room
\* at the origin gives (-2,-2,2,2).
C18_MapBoundsAreTight ==
  LET bounds == GetMapBounds(rooms)
  IN /\ DOMAIN rooms = {} => bounds = <<0, 0, 0, 0>>
     /\ DOMAIN rooms # {} =>
          /\ \A r \in DOMAIN rooms :
               /\ bounds[1] <= Left(rooms[r]) /\ Right(rooms[r]) <= bounds[3]
               /\ bounds[2] <= Bottom(rooms[r]) /\ Top(rooms[r]) <= bounds[4]
          /\ \E r \in DOMAIN rooms : Left(rooms[r]) = bounds[1]
          /\ \E r \in DOMAIN rooms : Bottom(rooms[r]) = bounds[2]
          /\ \E r \in DOMAIN rooms : Right(rooms[r]) = bounds[3]
          /\ \E r \in DOMAIN rooms : Top(rooms[r]) = bounds[4]
     /\ (DOMAIN rooms = {"center"} /\ AtOrigin(rooms["center"])) =>
          bounds = <<-2 * Scale, -2 * Scale, 2 * Scale, 2 * Scale>>

\* The five compass rooms placed: the box is set by the far sides of the
\* west, south, east and north rooms.
C18_Witness ==
  /\ \A c \in CompassRooms : CompassConnected(c[1])
  /\ GetMapBounds(rooms) = <<Left(rooms["west"]), Bottom(rooms["south"]),
                             Right(rooms["east"]), Top(rooms["north"])>>
  /\ GetMapBounds(rooms)[1] < Left(rooms["center"])
  /\ GetMapBounds(rooms)[4] > Top(rooms["center"])

\* The record has every field of the persisted format and only direction
\* tokens that are values of Direction.
WellFormedRecord(data) ==
  /\ {"discovery_count", "starting_room_id", "rooms"} \subseteq DOMAIN data
  /\ \A r \in DOMAIN data.rooms :
       /\ RoomKeys \subseteq DOMAIN data.rooms[r]
       /\ \A t \in DOMAIN data.rooms[r].exits :
            /\ t \in DirectionValues
            /\ ExitKeys \subseteq DOMAIN data.rooms[r].exits[t]
            /\ data.rooms[r].exits[t].direction \in DirectionValues

\* C19: from_dict raises, and returns no store, on every record that lacks
\* a field of the persisted format or holds an unknown direction token.
C19_MalformedRecordRaises ==
  (LastIs("from_dict") /\ ~WellFormedRecord(last.args[1])) => last.raised

\* C20: for every direction d (each run of the paired driver passes one
\* direction and its reverse, and the runs cover the 10 directions), the
\* reverse of d is a direction, is not d, and has d as its reverse; north
\* pairs with south, east with west, northeast with southwest, northwest
\* with southeast and up with down.
C20_ReverseIsInvolution ==
  \A d \in Direction :
    d \in directions =>
      /\ GetReverseDirection(d) \in Direction
      /\ GetReverseDirection(d) # d
      /\ GetReverseDirection(GetReverseDirection(d)) = d
      /\ \E pair \in {{"NORTH", "SOUTH"}, {"EAST", "WEST"},
                       {"NORTHEAST", "SOUTHWEST"}, {"NORTHWEST", "SOUTHEAST"},
                       {"UP", "DOWN"}} :
           pair = {d, GetReverseDirection(d)}

\* connect_rooms(a, DOWN, b) then connect_rooms(b, UP, a) on two rooms:
\* the second call took the reverse of the reverse and wrote the same two
\* exits again.
C20_Witness ==
  /\ LastIs("connect_rooms")
  /\ ~last.raised
  /\ last.args[2] = "UP"
  /\ last.args[1] # last.args[3]
  /\ DOMAIN rooms[last.args[1]].exits = {"UP"}
  /\ DOMAIN rooms[last.args[3]].exits = {"DOWN"}
  /\ LeadsTo(rooms, last.args[3], "DOWN", last.args[1])
  /\ calls = 4

\* C21: one relocation by _move_room_away_from_conflict clears the overlap
\* with the blocking room.  In a store of two rooms the other room is the
\* only one that can block, so a resolver run that relocates the room
\* relocates it once and then finds no overlap.
C21_OneRelocationClearsOverlap ==
  (/\ last.resolver.ran
   /\ Cardinality(DOMAIN rooms) = 2
   /\ last.resolver.iteration >= 1) =>
    /\ last.resolver.converged
    /\ last.resolver.iteration = 1

\* C22: a resolver run makes at most 10 passes and so relocates the room
\* at most 10 times; it stops before the 10th relocation exactly when a
\* pass finds no room that overlaps it (at once when the computed position
\* is free); and a pass relocates the room away from the first overlapping
\* room in the order of the room table.
C22_ResolverIsBounded ==
  /\ [](last.resolver.ran =>
          /\ last.resolver.iteration \in 0..MaxIterations
          /\ last.resolver.converged <=> last.resolver.iteration < MaxIterations
          /\ last.resolver.converged =>
               \A o \in DOMAIN rooms \ {last.resolver.room} :
                 ~RectanglesOverlap(rooms[last.resolver.room], rooms[o]))
  /\ [][(last'.op = "connect_rooms" /\ last'.resolver.ran) =>
         LET t == last'.args[3]
             pos == RelativePosition(rooms[t], rooms[last'.args[1]], last'.args[2])
             start == [rooms[t] EXCEPT !.x = pos[1], !.y = pos[2]]
             blockers == {o \in DOMAIN rooms \ {t} :
                            RectanglesOverlap(start, rooms[o])}
         IN /\ (last'.resolver.iteration = 0) <=> (blockers = {})
            /\ last'.resolver.iteration = 0 =>
                 (rooms'[t].x = start.x /\ rooms'[t].y = start.y)
            /\ last'.resolver.iteration = 1 =>
                 \E o \in blockers :
                   /\ \A b \in blockers :
                        rooms[o].discovery_order <= rooms[b].discovery_order
                   /\ rooms'[t].x = MoveRoomAwayFromConflict(start, rooms[o]).x
                   /\ rooms'[t].y = MoveRoomAwayFromConflict(start, rooms[o]).y]_vars

\* The third room was connected upwards from a room at the origin while
\* both other rooms were at the origin, one 10x8 and one 6x6: its computed
\* position overlapped both, and one relocation away from the first of
\* them cleared both.
C22_Witness ==
  /\ LastIs("connect_rooms")
  /\ last.resolver.ran
  /\ last.resolver.converged
  /\ last.resolver.iteration = 1
  /\ last.args[2] = "UP"
  /\ last.args[3] = IdPool[3]
  /\ AtOrigin(rooms[IdPool[1]])
  /\ AtOrigin(rooms[IdPool[2]])
  /\ rooms[IdPool[1]].width # rooms[IdPool[2]].width

\* C23: after connect_rooms(a, UP, b) or connect_rooms(a, DOWN, b) that
\* placed b (b was at (0,0) and not flagged), b is at a's coordinates.
C23_VerticalPlacementCoLocates ==
  (/\ LastIs("connect_rooms")
   /\ last.resolver.ran
   /\ last.args[2] \in {"UP", "DOWN"}) =>
    /\ rooms[last.args[3]].x = rooms[last.args[1]].x
    /\ rooms[last.args[3]].y = rooms[last.args[1]].y

\* C24: every exit that has a target names a room of the store.
C24_NoDanglingExitTarget ==
  \A r \in DOMAIN rooms : \A d \in DOMAIN rooms[r].exits :
    rooms[r].exits[d].target_room_id # None =>
      rooms[r].exits[d].target_room_id \in DOMAIN rooms

\* connect_rooms was called from a room that has exits with a target to a
\* room that is not in the store.
C24_Witness ==
  /\ LastIs("connect_rooms")
  /\ last.raised
  /\ last.args[1] \in DOMAIN rooms
  /\ last.args[3] \notin DOMAIN rooms
  /\ \E d \in DOMAIN rooms[last.args[1]].exits :
       rooms[last.args[1]].exits[d].target_room_id # None

\* C25: while starting_room_id names a room, that room is at (0,0).
C25_StartingRoomIdAtOrigin ==
  starting_room_id # None => AtOrigin(rooms[starting_room_id])

\* Every exit with a target has a reverse exit in the target room that
\* leads back.
ExitsSymmetric(rs) ==
  \A r \in DOMAIN rs : \A d \in DOMAIN rs[r].exits :
    LET t == rs[r].exits[d].target_room_id
    IN t # None =>
         /\ t \in DOMAIN rs
         /\ GetReverseDirection(d) \in DOMAIN rs[t].exits
         /\ rs[t].exits[GetReverseDirection(d)].target_room_id = r

WritesOnlyFreeSlots ==
  /\ (last'.op = "connect_rooms" /\ ~last'.raised) =>
       /\ last'.args[2] \notin DOMAIN rooms[last'.args[1]].exits
       /\ GetReverseDirection(last'.args[2]) \notin DOMAIN rooms[last'.args[3]].exits
  /\ (last'.op = "discover_exit" /\ last'.args[1] \in DOMAIN rooms) =>
       last'.args[2] \notin DOMAIN rooms[last'.args[1]].exits

====
